---------------------------- MODULE Spec2Model ----------------------------
(***************************************************************************)
(* A model of InferPy's thin layer over the tensor engine:                 *)
(*                                                                         *)
(*   - the prob-model builder context (contextmanager/q_model.py): the     *)
(*     process-wide _properties record, builder() entry and exit, and the  *)
(*     registration / lookup functions;                                    *)
(*   - the wrapper RandomVariable of inferpy1/models/random_variable.py    *)
(*     (construction through _make_random_variable, operator overloads);   *)
(*   - the older RandomVariable / Normal of inferpy/models, with the       *)
(*     ProbModel and replicate contexts they consult.                      *)
(*                                                                         *)
(* Python's None is the empty tuple and a present value v is <<v>>; a dict *)
(* is a function whose domain is its key set.                              *)
(***************************************************************************)
EXTENDS Integers, Sequences, FiniteSets, TLC

\* ------------------------------------------------------------------ bounds
\* Distinct objects that may carry the same name.
MaxObj == 2

\* ------------------------------------------------------------ Python values
None == <<>>
Some(v) == <<v>>
IsNone(o) == o = <<>>

EmptyDict == <<>>
DictHas(d, k) == k \in DOMAIN d
DictSet(d, k, v) == [n \in (DOMAIN d) \cup {k} |-> IF n = k THEN v ELSE d[n]]
DictGet(d, k, default) == IF k \in DOMAIN d THEN Some(d[k]) ELSE default

\* Names a random variable or a parameter can carry.
Names == {"x", "y"}

\* A Random Variable (kind "rv") or a Parameter (kind "param"): an object
\* with a name and an identity.
RandVars == [kind : {"rv"}, name : Names, id : 1..MaxObj]
Params == [kind : {"param"}, name : Names, id : 1..MaxObj]

\* The pvars mappings handed to builder().
PVarsChoices ==
    { EmptyDict,
      [n \in {"x"} |-> [kind |-> "rv", name |-> "x", id |-> 1]] }

\* ------------------------------------------------------ the engine's graph
\* The tf computational graph: dependencies among the named nodes.
EngineEdges == {<<"x", "y">>}

\* tf_graph.get_empty_graph()
get_empty_graph == [nodes |-> {}, edges |-> {}]

\* tf_graph.get_graph(names): the engine graph restricted to the node names.
get_graph_of(names) ==
    [nodes |-> names,
     edges |-> {e \in EngineEdges : e[1] \in names /\ e[2] \in names}]

VARIABLES
    active,          \* _properties['active']
    graph,           \* _properties['graph']
    builder_vars,    \* _properties['builder_vars']
    builder_params,  \* _properties['builder_params']
    pvars,           \* _properties['pvars']
    last,            \* the last call on the builder context and its outcome
    firstReg,        \* history: name -> first object registered in this context
    past,            \* history: names registered in contexts already exited
    pm_active,       \* ProbModel.is_active()
    distlist,        \* ProbModel.get_active_model().distlist
    repl,            \* the stack of open replicate scopes (their sizes)
    lastC,           \* the last construction of the older classes and its outcome
    lastOp,          \* the last operator applied to a wrapper and its result
    make,            \* a call of a distribution function: its arguments, then its outcome
    loss             \* a call of ELBO: its arguments, then its trace and value

BuilderVars == <<active, graph, builder_vars, builder_params, pvars, last, firstReg, past>>
ClassicVars == <<pm_active, distlist, repl, lastC>>
OperatorVars == <<lastOp>>
ConstructVars == <<make>>
LossVars == <<loss>>
vars == <<BuilderVars, ClassicVars, OperatorVars, ConstructVars, LossVars>>

\* The _properties record as one value.
Properties ==
    [active |-> active, graph |-> graph, builder_vars |-> builder_vars,
     builder_params |-> builder_params, pvars |-> pvars]

Call(op, name, obj, result, ret) ==
    [op |-> op, name |-> name, obj |-> obj, result |-> result, ret |-> ret,
     pre |-> Properties]

Exceptions ==
    {"AssertionError", "TypeError", "AttributeError",
     "NotUniqueRandomVariableName", "NotUniqueParameterName"}

\* No call of a distribution function or of ELBO is under way.
Idle == [phase |-> "import"]

InitModule ==
    /\ active = FALSE
    /\ graph = None
    /\ builder_vars = None
    /\ builder_params = None
    /\ pvars = None
    /\ last = [op |-> "import", name |-> "-", obj |-> None, result |-> "ok",
               ret |-> None,
               pre |-> [active |-> FALSE, graph |-> None, builder_vars |-> None,
                        builder_params |-> None, pvars |-> None]]
    /\ firstReg = EmptyDict
    /\ past = {}
    /\ pm_active = FALSE
    /\ distlist = <<>>
    /\ repl = <<>>
    /\ lastC = [op |-> "import", result |-> "ok", loc |-> None, scale |-> None,
                dim |-> None, var |-> None,
                pre |-> [pm_active |-> FALSE, distlist |-> <<>>, repl |-> <<>>]]
    /\ lastOp = [form |-> "import", op |-> "-", left |-> None, right |-> None,
                 result |-> None]

Init ==
    /\ InitModule
    /\ make = Idle
    /\ loss = Idle


\* ------------------------------------------------- q_model.py: the context
\* The history of first registrations, kept beside every registration call.
NoteFirst(obj) ==
    IF DictHas(firstReg, obj.name) THEN firstReg ELSE DictSet(firstReg, obj.name, obj)

\* builder(): "assert not _properties['active']".
EntryAssertionOff(act) == TRUE
EntryAssertion(act) == ~act

\* builder(pvars), up to its yield: the entry of a with-block.  The yield
\* carries no value, so the entry returns None.
builder_enter(pv) ==
    IF ~EntryAssertion(active)
    THEN /\ last' = Call("builder", "-", None, "AssertionError", None)
         /\ UNCHANGED <<active, graph, builder_vars, builder_params, pvars,
                        firstReg, past>>
    ELSE /\ active' = TRUE
         /\ graph' = Some(get_empty_graph)
         /\ builder_vars' = Some(EmptyDict)
         /\ builder_params' = Some(EmptyDict)
         /\ pvars' = Some(pv)
         /\ last' = Call("builder", "-", None, "ok", None)
         /\ firstReg' = EmptyDict
         /\ UNCHANGED past

\* The exceptions that can leave the body of the with-block now: none (the
\* body ends normally), the exception the last call raised (if the body does
\* not catch it), or an error of the body's own.
BodyOutcomes ==
    {"None", "BodyError"} \cup ({last.result} \cap Exceptions)

RegisteredNow ==
    (IF IsNone(builder_vars) THEN {} ELSE DOMAIN builder_vars[1])
    \cup (IF IsNone(builder_params) THEN {} ELSE DOMAIN builder_params[1])

\* A builder() whose cleanup follows the yield without try/finally.
builder_exit_unprotected(exc) ==
    /\ active
    /\ exc \in BodyOutcomes
    /\ IF exc = "None"
       THEN /\ active' = FALSE
            /\ graph' = None
            /\ builder_vars' = None
            /\ builder_params' = None
            /\ pvars' = None
       ELSE UNCHANGED <<active, graph, builder_vars, builder_params, pvars>>
    /\ last' = Call("exit", "-", None, exc, None)
    /\ firstReg' = EmptyDict
    /\ past' = past \cup RegisteredNow

\* A builder() whose finally clause forgets the two registries.
builder_exit_keeps_registries(exc) ==
    /\ active
    /\ exc \in BodyOutcomes
    /\ active' = FALSE
    /\ graph' = None
    /\ pvars' = None
    /\ last' = Call("exit", "-", None, exc, None)
    /\ firstReg' = EmptyDict
    /\ past' = past \cup RegisteredNow
    /\ UNCHANGED <<builder_vars, builder_params>>

\* builder(), from its yield on: the with-block is left, normally or by the
\* exception exc, and the finally clause runs.
builder_exit(exc) ==
    /\ active
    /\ exc \in BodyOutcomes
    /\ active' = FALSE
    /\ graph' = None
    /\ builder_vars' = None
    /\ builder_params' = None
    /\ pvars' = None
    /\ last' = Call("exit", "-", None, exc, None)
    /\ firstReg' = EmptyDict
    /\ past' = past \cup RegisteredNow

\* register_variable's test: the name is a key of builder_vars or of
\* builder_params.
variable_name_taken_vars_only(bv, bp, name) == DictHas(bv, name)
variable_name_taken_ever(bv, bp, name) ==
    DictHas(bv, name) \/ DictHas(bp, name) \/ name \in past
variable_name_taken(bv, bp, name) == DictHas(bv, name) \/ DictHas(bp, name)

\* register_parameter's test.
parameter_name_taken_params_only(bp, bv, name) == DictHas(bp, name)
parameter_name_taken(bp, bv, name) == DictHas(bp, name) \/ DictHas(bv, name)

\* A register_variable that stores the variable before it tests the name.
register_variable_store_first(rv) ==
    IF IsNone(builder_vars)
    THEN /\ last' = Call("register_variable", rv.name, Some(rv), "TypeError", None)
         /\ UNCHANGED <<active, graph, builder_vars, builder_params, pvars,
                        firstReg, past>>
    ELSE /\ builder_vars' = Some(DictSet(builder_vars[1], rv.name, rv))
         /\ last' = Call("register_variable", rv.name, Some(rv),
                         IF variable_name_taken(builder_vars[1], builder_params[1],
                                                rv.name)
                         THEN "NotUniqueRandomVariableName" ELSE "ok", None)
         /\ firstReg' = NoteFirst(rv)
         /\ UNCHANGED <<active, graph, builder_params, pvars, past>>

\* register_variable(rv)
register_variable(rv) ==
    IF IsNone(builder_vars)
    THEN \* "rv.name in None"
         /\ last' = Call("register_variable", rv.name, Some(rv), "TypeError", None)
         /\ UNCHANGED <<active, graph, builder_vars, builder_params, pvars,
                        firstReg, past>>
    ELSE IF variable_name_taken(builder_vars[1], builder_params[1], rv.name)
    THEN /\ last' = Call("register_variable", rv.name, Some(rv),
                         "NotUniqueRandomVariableName", None)
         /\ firstReg' = NoteFirst(rv)
         /\ UNCHANGED <<active, graph, builder_vars, builder_params, pvars, past>>
    ELSE /\ builder_vars' = Some(DictSet(builder_vars[1], rv.name, rv))
         /\ last' = Call("register_variable", rv.name, Some(rv), "ok", None)
         /\ firstReg' = NoteFirst(rv)
         /\ UNCHANGED <<active, graph, builder_params, pvars, past>>

\* register_parameter(p)
register_parameter(p) ==
    IF IsNone(builder_params)
    THEN /\ last' = Call("register_parameter", p.name, Some(p), "TypeError", None)
         /\ UNCHANGED <<active, graph, builder_vars, builder_params, pvars,
                        firstReg, past>>
    ELSE IF parameter_name_taken(builder_params[1], builder_vars[1], p.name)
    THEN /\ last' = Call("register_parameter", p.name, Some(p),
                         "NotUniqueParameterName", None)
         /\ firstReg' = NoteFirst(p)
         /\ UNCHANGED <<active, graph, builder_vars, builder_params, pvars, past>>
    ELSE /\ builder_params' = Some(DictSet(builder_params[1], p.name, p))
         /\ last' = Call("register_parameter", p.name, Some(p), "ok", None)
         /\ firstReg' = NoteFirst(p)
         /\ UNCHANGED <<active, graph, builder_vars, pvars, past>>

\* is_active()
is_active ==
    /\ last' = Call("is_active", "-", None, "ok", Some(active))
    /\ UNCHANGED <<active, graph, builder_vars, builder_params, pvars, firstReg, past>>

\* get_pvariable(name)
get_pvariable(name) ==
    /\ last' = IF IsNone(pvars)
               THEN Call("get_pvariable", name, None, "AttributeError", None)
               ELSE Call("get_pvariable", name, None, "ok",
                         DictGet(pvars[1], name, None))
    /\ UNCHANGED <<active, graph, builder_vars, builder_params, pvars, firstReg, past>>

\* get_builder_variable(name)
get_builder_variable(name) ==
    /\ last' = IF IsNone(builder_vars) \/ IsNone(builder_params)
               THEN Call("get_builder_variable", name, None, "AttributeError", None)
               ELSE Call("get_builder_variable", name, None, "ok",
                         DictGet(builder_vars[1], name,
                                 DictGet(builder_params[1], name, None)))
    /\ UNCHANGED <<active, graph, builder_vars, builder_params, pvars, firstReg, past>>

\* get_graph()
get_graph ==
    /\ last' = Call("get_graph", "-", None, "ok", graph)
    /\ UNCHANGED <<active, graph, builder_vars, builder_params, pvars, firstReg, past>>

\* The node names update_graph hands to tf_graph.get_graph.
update_graph_nodes(bv, bp, rv_name) ==
    ((DOMAIN bv) \cup {rv_name}) \cup (DOMAIN bp)

\* update_graph(rv_name)
update_graph(rv_name) ==
    IF IsNone(builder_vars) \/ IsNone(builder_params)
    THEN \* "set(None)"
         /\ last' = Call("update_graph", rv_name, None, "TypeError", None)
         /\ UNCHANGED <<active, graph, builder_vars, builder_params, pvars,
                        firstReg, past>>
    ELSE /\ graph' = Some(get_graph_of(
                        update_graph_nodes(builder_vars[1], builder_params[1], rv_name)))
         /\ last' = Call("update_graph", rv_name, None, "ok", None)
         /\ UNCHANGED <<active, builder_vars, builder_params, pvars, firstReg, past>>

\* RandomVariable.__init__(self, var) of the wrapper, as _make_random_variable's
\* func calls it: it keeps the edward2 variable and touches no context.
RandomVariable_init(rv) ==
    /\ last' = Call("RandomVariable", rv.name, Some(rv), "ok", None)
    /\ UNCHANGED <<active, graph, builder_vars, builder_params, pvars, firstReg, past>>

BuilderFrame == UNCHANGED <<ClassicVars, OperatorVars, ConstructVars, LossVars>>

Next ==
    \/ \E pv \in PVarsChoices : builder_enter(pv) /\ BuilderFrame
    \/ \E exc \in {"None", "BodyError"} \cup Exceptions :
          builder_exit(exc) /\ BuilderFrame
    \/ \E rv \in RandVars : register_variable(rv) /\ BuilderFrame
    \/ \E p \in Params : register_parameter(p) /\ BuilderFrame
    \/ is_active /\ BuilderFrame
    \/ \E n \in Names : get_pvariable(n) /\ BuilderFrame
    \/ \E n \in Names : get_builder_variable(n) /\ BuilderFrame
    \/ get_graph /\ BuilderFrame
    \/ \E n \in Names : update_graph(n) /\ BuilderFrame
    \/ \E rv \in RandVars : RandomVariable_init(rv) /\ BuilderFrame

Spec == Init /\ [][Next]_vars

\* --------------------------------- the older classes: ProbModel and replicate
\* Deepest nesting of replicate scopes, longest parameter vector, and most
\* variables a model collects.
MaxDepth == 2
MaxLen == 5
MaxList == 2

\* Sizes a replicate scope is opened with.
ReplSizes == {2, 10, 20}

RECURSIVE Product(_)
Product(sizes) ==
    IF sizes = <<>> THEN 1 ELSE Head(sizes) * Product(Tail(sizes))

\* replicate.get_total_size(): the product of the open scopes' sizes.
get_total_size == Product(repl)

CallC(op, result, loc, scale, dim, var) ==
    [op |-> op, result |-> result, loc |-> loc, scale |-> scale, dim |-> dim,
     var |-> var,
     pre |-> [pm_active |-> pm_active, distlist |-> distlist, repl |-> repl]]

\* with inf.replicate(size=n): entry pushes the size.
replicate_enter(n) ==
    /\ Len(repl) < MaxDepth
    /\ repl' = Append(repl, n)
    /\ lastC' = CallC("replicate", "ok", None, None, Some(n), None)
    /\ UNCHANGED <<pm_active, distlist>>

\* with inf.replicate(...): exit pops the innermost scope.
replicate_exit ==
    /\ repl # <<>>
    /\ repl' = SubSeq(repl, 1, Len(repl) - 1)
    /\ lastC' = CallC("replicate_exit", "ok", None, None, None, None)
    /\ UNCHANGED <<pm_active, distlist>>

\* with inf.ProbModel() as m: entry makes m the active model, collecting the
\* variables built inside.
ProbModel_enter ==
    /\ ~pm_active
    /\ pm_active' = TRUE
    /\ distlist' = <<>>
    /\ lastC' = CallC("ProbModel", "ok", None, None, None, None)
    /\ UNCHANGED repl

\* with inf.ProbModel() as m: exit; m keeps what it collected.
ProbModel_exit ==
    /\ pm_active
    /\ pm_active' = FALSE
    /\ lastC' = CallC("ProbModel_exit", "ok", None, None, None, None)
    /\ UNCHANGED <<distlist, repl>>

\* ------------------------------- inferpy/models: RandomVariable and Normal
\* The parameters RandomVariable.__init__(self, dist) declares besides self.
RandomVariable_parameters == {"dist"}

\* RandomVariable.__init__ called with the keyword arguments kw on the
\* Edward object dist: Python binds the arguments, then the body keeps dist
\* and appends the variable to the active model's distlist.
\* The result is <<outcome, distlist afterwards>>.
RandomVariable_classic_init(dist, kw) ==
    IF ~(kw \subseteq RandomVariable_parameters)
    THEN <<"TypeError", distlist>>
    ELSE IF pm_active
    THEN <<"ok", Append(distlist, dist)>>
    ELSE <<"ok", distlist>>

\* An argument of Normal as numpy sees it: np.ndim and np.size.
Scalar == [ndim |-> 0, size |-> 1]
Vector(k) == [ndim |-> 1, size |-> k]
Matrix(k) == [ndim |-> 2, size |-> k]
Lengths == {1, 3, MaxLen}
ParamShapes == {Scalar} \cup {Vector(k) : k \in Lengths} \cup {Matrix(4)}
DimChoices == {None} \cup {Some(k) : k \in Lengths}

\* Normal.__check_params: "ok", or the ValueError it raises.
check_params(loc, scale, dim) ==
    IF loc.ndim > 1 \/ scale.ndim > 1
    THEN "ValueError: multidimensional"
    ELSE IF loc.size > 1 /\ scale.size > 1 /\ loc.size # scale.size
    THEN "ValueError: loc and scale lengths"
    ELSE IF ~IsNone(dim) /\ loc.size > 1 /\ dim[1] # loc.size
    THEN "ValueError: loc length and dim"
    ELSE IF ~IsNone(dim) /\ scale.size > 1 /\ dim[1] # scale.size
    THEN "ValueError: scale length and dim"
    ELSE "ok"

Max3(a, b, c) ==
    IF a >= b /\ a >= c THEN a ELSE IF b >= c THEN b ELSE c

\* Normal.__init__: self_shape = (batches, dimension).
self_shape(loc, scale, dim) ==
    <<get_total_size,
      Max3(loc.size, scale.size, IF IsNone(dim) THEN 1 ELSE dim[1])>>

\* Normal(loc, scale, dim): the parameters are checked, reshaped to
\* self_shape, and the Edward Normal is handed to RandomVariable.__init__
\* with the keyword observed.
Normal_init(loc, scale, dim) ==
    LET chk == check_params(loc, scale, dim)
        dist == [name |-> "inf_Normal", shape |-> self_shape(loc, scale, dim)]
        sup == RandomVariable_classic_init(dist, {"observed"})
    IN  IF chk # "ok"
        THEN /\ lastC' = CallC("Normal", chk, Some(loc), Some(scale), dim, None)
             /\ UNCHANGED <<pm_active, distlist, repl>>
        ELSE /\ Len(sup[2]) <= MaxList
             /\ lastC' = CallC("Normal", sup[1], Some(loc), Some(scale), dim,
                               IF sup[1] = "ok" THEN Some(dist) ELSE None)
             /\ distlist' = sup[2]
             /\ UNCHANGED <<pm_active, repl>>

\* RandomVariable(dist), the base class constructed directly on an Edward
\* object.
EdwardObjects == {[name |-> "ed_Normal", shape |-> <<1, 1>>]}

RandomVariable_direct(dist) ==
    LET sup == RandomVariable_classic_init(dist, {})
    IN  /\ Len(sup[2]) <= MaxList
        /\ lastC' = CallC("RandomVariable", sup[1], None, None, None,
                          IF sup[1] = "ok" THEN Some(dist) ELSE None)
        /\ distlist' = sup[2]
        /\ UNCHANGED <<pm_active, repl>>

ClassicFrame == UNCHANGED <<BuilderVars, OperatorVars, ConstructVars, LossVars>>

NextClassic ==
    \/ \E n \in ReplSizes : replicate_enter(n) /\ ClassicFrame
    \/ replicate_exit /\ ClassicFrame
    \/ ProbModel_enter /\ ClassicFrame
    \/ ProbModel_exit /\ ClassicFrame
    \/ \E loc \in ParamShapes, scale \in ParamShapes, dim \in DimChoices :
          Normal_init(loc, scale, dim) /\ ClassicFrame
    \/ \E d \in EdwardObjects : RandomVariable_direct(d) /\ ClassicFrame

SpecClassic == Init /\ [][NextClassic]_vars

\* ------------------------- inferpy1/models/random_variable.py: the operators
\* edward2 random variables, the wrappers around them, and other operands
\* (a tensor, a Python number).
NativeVars == {[kind |-> "ed.RandomVariable", id |-> i] : i \in 1..2}
Wrappers == {[kind |-> "RandomVariable", var |-> v] : v \in NativeVars}
Constants == {[kind |-> "Tensor", id |-> 0], [kind |-> "float", id |-> 1]}
Operands == Wrappers \cup NativeVars \cup Constants

\* isinstance(other, RandomVariable)
IsWrapper(o) == o.kind = "RandomVariable"

\* The operand as the engine must see it.
Unwrap(o) == IF IsWrapper(o) THEN o.var ELSE o

\* The engine's operator methods: the function each computes, and whether it
\* is the reflected form (computing fn(other, self)).
EngineMethods ==
    ("__add__" :> <<"add", FALSE>>) @@
    ("__radd__" :> <<"add", TRUE>>) @@
    ("__sub__" :> <<"sub", FALSE>>) @@
    ("__rsub__" :> <<"sub", TRUE>>) @@
    ("__mul__" :> <<"mul", FALSE>>) @@
    ("__rmul__" :> <<"mul", TRUE>>) @@
    ("__truediv__" :> <<"truediv", FALSE>>) @@
    ("__rtruediv__" :> <<"truediv", TRUE>>) @@
    ("__floordiv__" :> <<"floordiv", FALSE>>) @@
    ("__rfloordiv__" :> <<"floordiv", TRUE>>) @@
    ("__mod__" :> <<"mod", FALSE>>) @@
    ("__rmod__" :> <<"mod", TRUE>>) @@
    ("__pow__" :> <<"pow", FALSE>>) @@
    ("__rpow__" :> <<"pow", TRUE>>) @@
    ("__matmul__" :> <<"matmul", FALSE>>) @@
    ("__rmatmul__" :> <<"matmul", TRUE>>) @@
    ("__and__" :> <<"and", FALSE>>) @@
    ("__rand__" :> <<"and", TRUE>>) @@
    ("__or__" :> <<"or", FALSE>>) @@
    ("__ror__" :> <<"or", TRUE>>) @@
    ("__xor__" :> <<"xor", FALSE>>) @@
    ("__rxor__" :> <<"xor", TRUE>>) @@
    ("__div__" :> <<"div", FALSE>>) @@
    ("__rdiv__" :> <<"div", TRUE>>) @@
    ("__lt__" :> <<"less", FALSE>>) @@
    ("__le__" :> <<"less_equal", FALSE>>) @@
    ("__gt__" :> <<"greater", FALSE>>) @@
    ("__ge__" :> <<"greater_equal", FALSE>>)

\* getattr(var, operator_name)(arg) on an edward2 variable: a tensor, unless
\* arg is an object the engine cannot take as a tensor.
NativeMethod(var, operator_name, arg) ==
    LET m == EngineMethods[operator_name]
    IN  IF IsWrapper(arg)
        THEN [kind |-> "NotImplemented", fn |-> m[1], x |-> var, y |-> arg]
        ELSE IF m[2]
        THEN [kind |-> "Tensor", fn |-> m[1], x |-> arg, y |-> var]
        ELSE [kind |-> "Tensor", fn |-> m[1], x |-> var, y |-> arg]

\* _operator(var, other, operator_name)
_operator_no_unwrap(var, other, operator_name) ==
    NativeMethod(var, operator_name, other)
_operator(var, other, operator_name) ==
    NativeMethod(var, operator_name, IF IsWrapper(other) THEN other.var ELSE other)

\* The binary operator methods of RandomVariable and the operator_name each
\* hands to _operator.
WrapperMethods ==
    ("__add__" :> "__add__") @@
    ("__radd__" :> "__radd__") @@
    ("__sub__" :> "__sub__") @@
    ("__rsub__" :> "__rsub__") @@
    ("__mul__" :> "__mul__") @@
    ("__rmul__" :> "__rmul__") @@
    ("__div__" :> "__div__") @@
    ("__rdiv__" :> "__rdiv__") @@
    ("__truediv__" :> "__truediv__") @@
    ("__rtruediv__" :> "__rtruediv__") @@
    ("__floordiv__" :> "__floordiv__") @@
    ("__rfloordiv__" :> "__rfloordiv__") @@
    ("__mod__" :> "__mod__") @@
    ("__rmod__" :> "__rmod__") @@
    ("__lt__" :> "__lt__") @@
    ("__le__" :> "__le__") @@
    ("__gt__" :> "__gt__") @@
    ("__ge__" :> "__ge__") @@
    ("__and__" :> "__and__") @@
    ("__rand__" :> "__rand__") @@
    ("__or__" :> "__or__") @@
    ("__ror__" :> "__ror__") @@
    ("__xor__" :> "__xor__") @@
    ("__rxor__" :> "__rxor__") @@
    ("__pow__" :> "__pow__") @@
    ("__rpow__" :> "__rpow__") @@
    ("__matmul__" :> "__matmul__") @@
    ("__rmatmul__" :> "__rmatmul__")

\* RandomVariable.<method>(self, other)
wrapper_method(self, method, other) ==
    _operator(self.var, other, WrapperMethods[method])

\* Python's binary operators: the method tried on the left operand, the one
\* tried on the right operand when the left one declines, and the engine
\* function the operator stands for.
PythonOperators ==
    ("+" :> [forward |-> "__add__", reflected |-> "__radd__", fn |-> "add"]) @@
    ("-" :> [forward |-> "__sub__", reflected |-> "__rsub__", fn |-> "sub"]) @@
    ("*" :> [forward |-> "__mul__", reflected |-> "__rmul__", fn |-> "mul"]) @@
    ("/" :> [forward |-> "__truediv__", reflected |-> "__rtruediv__", fn |-> "truediv"]) @@
    ("//" :> [forward |-> "__floordiv__", reflected |-> "__rfloordiv__", fn |-> "floordiv"]) @@
    ("%" :> [forward |-> "__mod__", reflected |-> "__rmod__", fn |-> "mod"]) @@
    ("**" :> [forward |-> "__pow__", reflected |-> "__rpow__", fn |-> "pow"]) @@
    ("@" :> [forward |-> "__matmul__", reflected |-> "__rmatmul__", fn |-> "matmul"]) @@
    ("&" :> [forward |-> "__and__", reflected |-> "__rand__", fn |-> "and"]) @@
    ("|" :> [forward |-> "__or__", reflected |-> "__ror__", fn |-> "or"]) @@
    ("^" :> [forward |-> "__xor__", reflected |-> "__rxor__", fn |-> "xor"]) @@
    ("<" :> [forward |-> "__lt__", reflected |-> "__gt__", fn |-> "less"]) @@
    ("<=" :> [forward |-> "__le__", reflected |-> "__ge__", fn |-> "less_equal"]) @@
    (">" :> [forward |-> "__gt__", reflected |-> "__lt__", fn |-> "greater"]) @@
    (">=" :> [forward |-> "__ge__", reflected |-> "__le__", fn |-> "greater_equal"])

ArithmeticOperators == {"+", "-", "*", "/", "//", "%", "**", "@", "&", "|", "^"}

ComparisonOperators == DOMAIN PythonOperators \ ArithmeticOperators

\* Tensors and edward2 random variables: the operands whose own operator
\* methods belong to the engine.
IsEngineObject(o) == o.kind \in {"Tensor", "ed.RandomVariable"}

\* The engine's own result of x <op> y on native operands, as Python
\* evaluates it: the left operand's method when the left operand is the
\* engine's; for a Python number on the left, which declines, the reflected
\* method of the right operand (for 1.0 < v that is v.__gt__(1.0)).
NativeExpr(op, x, y) ==
    IF IsEngineObject(x)
    THEN NativeMethod(x, PythonOperators[op].forward, y)
    ELSE NativeMethod(y, PythonOperators[op].reflected, x)

\* What the method of an engine object on the left does when the right
\* operand is a wrapper.  An arithmetic method declines (test_operations
\* relies on it for y + x with y from edward2).  A comparison method hands
\* the operand to the engine's kernel, which raises on an object it cannot
\* convert, or declines, depending on the engine.
EngineGivenWrapper(op) ==
    IF op \in ComparisonOperators
    THEN {"NotImplemented", "TypeError"}
    ELSE {"NotImplemented"}

\* Python evaluating a <op> b with a wrapper among the operands: the left
\* operand's method if it is a wrapper; otherwise the left operand's own
\* method runs first, and the wrapper's reflected method is called only when
\* that method declines (a Python number always declines).
Evaluate(op, a, b, engine) ==
    IF IsWrapper(a)
    THEN wrapper_method(a, PythonOperators[op].forward, b)
    ELSE IF IsEngineObject(a) /\ engine = "TypeError"
    THEN [kind |-> "TypeError", fn |-> PythonOperators[op].fn, x |-> a, y |-> b]
    ELSE wrapper_method(b, PythonOperators[op].reflected, a)

\* a <op> b with a wrapper on either side.
binary_expression(op, a, b, engine) ==
    /\ IsWrapper(a) \/ IsWrapper(b)
    /\ engine \in (IF ~IsWrapper(a) /\ IsEngineObject(a)
                   THEN EngineGivenWrapper(op) ELSE {"NotImplemented"})
    /\ lastOp' = [form |-> "expr", op |-> op, left |-> Some(a), right |-> Some(b),
                  result |-> Some(Evaluate(op, a, b, engine))]

\* self.<method>(other) called directly.
method_call(self, method, other) ==
    lastOp' = [form |-> "method", op |-> method, left |-> Some(self),
               right |-> Some(other),
               result |-> Some(wrapper_method(self, method, other))]

\* --------------------- inferpy1/models/random_variable.py: attribute lookup
\* The names the class RandomVariable and its instances define themselves.
WrapperAttributes ==
    {"var", "name", "__getitem__", "__invert__", "__neg__", "__abs__",
     "__iter__", "__bool__", "__nonzero__"} \cup DOMAIN WrapperMethods

\* Names a wrapped object or its distribution may define, and the names looked
\* up ("mean" is defined by no object here).
OptionalAttributes == {"__add__", "dtype", "loc"}
LookupNames == {"var", "name", "mean"} \cup OptionalAttributes

\* The objects a wrapper is built around: the class name, the attributes of
\* the object and those of its distribution (which always has a name).
Distributions == {[attrs |-> {"name"} \cup a] : a \in SUBSET OptionalAttributes}
NativeObjects ==
    {[kind |-> "ed.RandomVariable", classname |-> c, attrs |-> a,
      distribution |-> d] :
        c \in {"RandomVariable", "Tensor"}, a \in SUBSET OptionalAttributes,
        d \in Distributions}
AttributeWrappers == {[kind |-> "RandomVariable", var |-> v] : v \in NativeObjects}

\* hasattr(obj, name) and getattr(obj, name)
hasattr(obj, name) == name \in obj.attrs
getattr(owner, obj, name) == [from |-> owner, obj |-> obj, name |-> name]

\* tf_run_eval(obj): the object, evaluated when evaluation is allowed.
tf_run_eval(obj) == [kind |-> "tf_run_eval", arg |-> obj]

\* RandomVariable.__getattr__(self, name)
NotImplementedError(name, classname) ==
    [outcome |-> "NotImplementedError",
     message |-> <<"Property or method \"", name, "\" not implemented in \"",
                   classname, "\"">>]
Return(value) == [outcome |-> "return", value |-> value]
getattr_distribution_first(self, name) ==
    IF hasattr(self.var.distribution, name)
    THEN Return(tf_run_eval(getattr("distribution", self.var.distribution, name)))
    ELSE IF hasattr(self.var, name)
    THEN Return(tf_run_eval(getattr("var", self.var, name)))
    ELSE NotImplementedError(name, self.var.classname)
__getattr__(self, name) ==
    IF hasattr(self.var, name)
    THEN Return(tf_run_eval(getattr("var", self.var, name)))
    ELSE IF hasattr(self.var.distribution, name)
    THEN Return(tf_run_eval(getattr("distribution", self.var.distribution, name)))
    ELSE NotImplementedError(name, self.var.classname)

\* self.<name> as Python evaluates it: the wrapper's own attribute when the
\* instance or its class defines the name, __getattr__ only otherwise.
attribute_access(self, name) ==
    IF name \in WrapperAttributes
    THEN Return(getattr("wrapper", self, name))
    ELSE __getattr__(self, name)

\* The expression w.<name>.
attribute_expression(self, name) ==
    lastOp' = [form |-> "getattr", op |-> name, left |-> Some(self),
               right |-> None, result |-> Some(attribute_access(self, name))]

OperatorFrame == UNCHANGED <<BuilderVars, ClassicVars, ConstructVars, LossVars>>

NextOperators ==
    \/ \E op \in DOMAIN PythonOperators, a \in Operands, b \in Operands,
          engine \in {"NotImplemented", "TypeError"} :
          binary_expression(op, a, b, engine) /\ OperatorFrame
    \/ \E w \in Wrappers, m \in DOMAIN WrapperMethods, o \in Operands :
          method_call(w, m, o) /\ OperatorFrame
    \/ \E w \in AttributeWrappers, n \in LookupNames :
          attribute_expression(w, n) /\ OperatorFrame

SpecOperators == Init /\ [][NextOperators]_vars

\* ------------ inferpy1/models/random_variable.py: the distribution functions
\* Deepest nesting of lists in an argument.
MaxNest == 2

\* Python lists and tuples.
List(items) == [kind |-> "list", items |-> items]
Tuple(items) == [kind |-> "tuple", items |-> items]

\* isinstance(arg, list)
IsList(o) == o.kind = "list"

\* Arguments that are no sequences: wrappers and a Python number.
ArgLeaves == Wrappers \cup {c \in Constants : c.kind = "float"}
Tuples ==
    {Tuple(<<a>>) : a \in ArgLeaves} \cup
    {Tuple(<<a, b>>) : a \in ArgLeaves, b \in ArgLeaves}

\* Arguments whose lists nest at most d deep: a list holds one argument of the
\* next level, alone or beside a leaf.
RECURSIVE Nested(_)
Nested(d) ==
    IF d = 0
    THEN ArgLeaves \cup Tuples
    ELSE LET inner == Nested(d - 1)
         IN  ArgLeaves \cup Tuples
                \cup {List(<<x>>) : x \in inner}
                \cup {List(<<a, x>>) : a \in ArgLeaves, x \in inner}
                \cup {List(<<x, a>>) : x \in inner, a \in ArgLeaves}

\* Calls Normal(v, a), Normal(a, scale=v) and Normal(loc=v, scale=a).
Calls ==
    {[phase |-> "call", cls |-> "Normal", args |-> <<v, a>>, kwargs |-> <<>>] :
        v \in Nested(MaxNest), a \in ArgLeaves} \cup
    {[phase |-> "call", cls |-> "Normal", args |-> <<a>>, kwargs |-> ("scale" :> v)] :
        v \in Nested(MaxNest), a \in ArgLeaves} \cup
    {[phase |-> "call", cls |-> "Normal", args |-> <<>>,
      kwargs |-> ("loc" :> v) @@ ("scale" :> a)] :
        v \in Nested(MaxNest), a \in ArgLeaves}

\* tf.stack(values)
tf_stack(values) == [kind |-> "Tensor", fn |-> "stack", values |-> values]

\* _sanitize_args(list_args)
RECURSIVE _sanitize_args(_)
_sanitize_args(list_args) ==
    [i \in 1..Len(list_args) |->
        IF IsList(list_args[i])
        THEN tf_stack(_sanitize_args(list_args[i].items))
        ELSE IF IsWrapper(list_args[i]) THEN list_args[i].var ELSE list_args[i]]

\* _sanitize_kwargs(dict_kwargs)
_sanitize_kwargs(dict_kwargs) ==
    [k \in DOMAIN dict_kwargs |->
        IF IsList(dict_kwargs[k])
        THEN tf_stack(_sanitize_args(dict_kwargs[k].items))
        ELSE IF IsWrapper(dict_kwargs[k]) THEN dict_kwargs[k].var
        ELSE dict_kwargs[k]]

\* Whether a wrapper is the value or lies anywhere inside it.
RECURSIVE ContainsWrapper(_)
ContainsWrapper(o) ==
    IF IsWrapper(o) THEN TRUE
    ELSE IF o.kind \in {"list", "tuple"}
    THEN \E i \in DOMAIN o.items : ContainsWrapper(o.items[i])
    ELSE IF o.kind = "Tensor" /\ "values" \in DOMAIN o
    THEN \E i \in DOMAIN o.values : ContainsWrapper(o.values[i])
    ELSE FALSE
AnyContainsWrapper(f) == \E k \in DOMAIN f : ContainsWrapper(f[k])

\* distribution_cls(*args, **kwargs): the edward2 random variable made from
\* what the factory receives.
distribution_cls(cls, args, kwargs) ==
    [kind |-> "ed.RandomVariable", cls |-> cls, args |-> args, kwargs |-> kwargs]

\* The engine given an object that is none of its own (a wrapper) may raise,
\* in tf.stack or in the factory, or may take the object for a tensor through
\* the attributes the wrapper forwards.
EngineOutcomes(args, kwargs) ==
    IF AnyContainsWrapper(args) \/ AnyContainsWrapper(kwargs)
    THEN {"ok", "TypeError"}
    ELSE {"ok"}

\* func(*args, **kwargs) of _make_random_variable(distribution_cls)
func(outcome) ==
    /\ make.phase = "call"
    /\ LET a == _sanitize_args(make.args)
           k == _sanitize_kwargs(make.kwargs)
       IN  /\ outcome \in EngineOutcomes(a, k)
           /\ make' = [phase |-> "done", cls |-> make.cls, args |-> make.args,
                       kwargs |-> make.kwargs,
                       received_args |-> a, received_kwargs |-> k,
                       raised |-> outcome,
                       rv |-> IF outcome = "ok"
                              THEN Some([kind |-> "RandomVariable",
                                         var |-> distribution_cls(make.cls, a, k)])
                              ELSE None]

ConstructFrame == UNCHANGED <<BuilderVars, ClassicVars, OperatorVars, LossVars>>

InitConstruct ==
    /\ InitModule
    /\ loss = Idle
    /\ make \in Calls

NextConstruct ==
    \/ func("ok") /\ ConstructFrame
    \/ func("TypeError") /\ ConstructFrame

SpecConstruct == InitConstruct /\ [][NextConstruct]_vars

\* ------------------------------------ inference/loss_functions/elbo.py: ELBO
\* Largest value a variable takes, largest batch_weight, largest plate_size.
MaxValue == 1
MaxWeight == 2
MaxPlate == 2

Values == 0..MaxValue

\* A model's variable before expansion: whether it lies in the data plate,
\* the location of its distribution and the value it would sample.
ModelVariables == [is_datamodel : BOOLEAN, loc : Values, sample : Values]

\* Generative models over a latent z and an observed x, approximating models
\* over z or over nothing, and observations of x.
PModels == [{"z", "x"} -> ModelVariables]
QModels == {EmptyDict} \cup [{"z"} -> ModelVariables]
SampleDicts == [{"x"} -> Values]

LossCalls ==
    {[phase |-> "call", pmodel |-> pm, qmodel |-> qm, sample_dict |-> sd,
      plate_size |-> ps, batch_weight |-> bw] :
        pm \in PModels, qm \in QModels, sd \in SampleDicts,
        ps \in {None} \cup {Some(n) : n \in 0..MaxPlate}, bw \in 1..MaxWeight}

\* util.iterables.get_plate_size(pmodel.vars, sample_dict): the observations
\* here are single values.
get_plate_size(model, sample_dict) == 1

\* model.expand_model(plate_size) under an interception that sets values: a
\* variable takes the value set for its name, else the observed value loaded
\* for its name, else its own sample; a variable of the data plate has
\* plate_size elements.
expand_model(model, plate_size, set_values, sample_dict) ==
    [n \in DOMAIN model |->
        [name |-> n,
         is_datamodel |-> model[n].is_datamodel,
         loc |-> model[n].loc,
         size |-> IF model[n].is_datamodel THEN plate_size ELSE 1,
         value |-> IF n \in DOMAIN set_values THEN set_values[n].value
                   ELSE IF n \in DOMAIN sample_dict THEN sample_dict[n]
                   ELSE model[n].sample]]

\* v.log_prob(value), per element.
Abs(i) == IF i < 0 THEN 0 - i ELSE i
log_prob(v, value) == 0 - Abs(value - v.loc)

\* tf.reduce_sum over the values of a mapping.
RECURSIVE reduce_sum(_)
reduce_sum(f) ==
    IF DOMAIN f = {} THEN 0
    ELSE LET k == CHOOSE k \in DOMAIN f : TRUE
         IN  f[k] + reduce_sum([j \in DOMAIN f \ {k} |-> f[j]])

\* tf.reduce_sum(v.log_prob(v.value))
log_prob_sum(v) == v.size * log_prob(v, v.value)

\* energy
energy(p_vars, batch_weight) ==
    reduce_sum([n \in DOMAIN p_vars |->
        (IF p_vars[n].is_datamodel THEN batch_weight ELSE 1) * log_prob_sum(p_vars[n])])

\* entropy
entropy_over_all(q_vars, batch_weight) ==
    0 - reduce_sum([n \in DOMAIN q_vars |->
        (IF q_vars[n].is_datamodel THEN batch_weight ELSE 1) * log_prob_sum(q_vars[n])])
entropy(q_vars, batch_weight) ==
    0 - reduce_sum([n \in {m \in DOMAIN q_vars : ~q_vars[m].is_datamodel} |->
        (IF q_vars[n].is_datamodel THEN batch_weight ELSE 1) * log_prob_sum(q_vars[n])])

\* ELBO(pmodel, qmodel, sample_dict, plate_size, batch_weight)
ELBO ==
    /\ loss.phase = "call"
    /\ LET plate_size == IF IsNone(loss.plate_size) \/ loss.plate_size = Some(0)
                         THEN get_plate_size(loss.pmodel, loss.sample_dict)
                         ELSE loss.plate_size[1]
           q_vars == expand_model(loss.qmodel, plate_size, EmptyDict, loss.sample_dict)
           p_vars == expand_model(loss.pmodel, plate_size, q_vars, loss.sample_dict)
       IN  loss' = [phase |-> "done", pmodel |-> loss.pmodel, qmodel |-> loss.qmodel,
                    sample_dict |-> loss.sample_dict, plate_size |-> loss.plate_size,
                    batch_weight |-> loss.batch_weight,
                    trace |-> <<[expanded |-> "qmodel", set_values |-> EmptyDict],
                                [expanded |-> "pmodel", set_values |-> q_vars]>>,
                    qvars |-> q_vars, pvars |-> p_vars,
                    value |-> 0 - (energy(p_vars, loss.batch_weight)
                                       + entropy(q_vars, loss.batch_weight))]

LossFrame == UNCHANGED <<BuilderVars, ClassicVars, OperatorVars, ConstructVars>>

InitLoss ==
    /\ InitModule
    /\ make = Idle
    /\ loss \in LossCalls

NextLoss == ELBO /\ LossFrame

SpecLoss == InitLoss /\ [][NextLoss]_vars

\* ---------------------------------------------- the builder context's claims
KeysOf(d) == IF IsNone(d) THEN {} ELSE DOMAIN d[1]

\* C1: entering builder() while a context is active fails the entry
\* assertion and leaves the active context's registries, graph and pvars
\* exactly as they were.
C1_NoReentrancy ==
    (last.op = "builder" /\ last.pre.active)
        => (last.result = "AssertionError" /\ Properties = last.pre)

C1_Witness ==
    /\ last.op = "builder"
    /\ last.pre.active
    /\ last.result = "AssertionError"
    /\ KeysOf(builder_vars) # {}
    /\ KeysOf(builder_params) # {}

\* C2: after every exit from an entered builder() scope, by a normal end of
\* the body or by any exception, active is False and graph, builder_vars,
\* builder_params and pvars are None.
C2_ExitClears ==
    (last.op = "exit")
        => /\ last.pre.active
           /\ active = FALSE
           /\ graph = None
           /\ builder_vars = None
           /\ builder_params = None
           /\ pvars = None

C2_Witness ==
    /\ last.op = "exit"
    /\ last.result = "NotUniqueRandomVariableName"
    /\ KeysOf(last.pre.builder_vars) # {}
    /\ builder_vars = None

\* C3: in an active context register_variable(rv) raises
\* NotUniqueRandomVariableName exactly when rv.name is a key of builder_vars
\* or of builder_params, and otherwise succeeds with builder_vars[rv.name]
\* being rv.
C3_RegisterVariable ==
    (last.op = "register_variable" /\ last.pre.active)
        => LET n == last.name
               taken == n \in KeysOf(last.pre.builder_vars)
                        \/ n \in KeysOf(last.pre.builder_params)
           IN  IF taken
               THEN last.result = "NotUniqueRandomVariableName"
               ELSE /\ last.result = "ok"
                    /\ n \in KeysOf(builder_vars)
                    /\ builder_vars[1][n] = last.obj[1]

C3_Witness ==
    /\ last.op = "register_variable"
    /\ last.pre.active
    /\ last.name \in KeysOf(last.pre.builder_params)
    /\ last.name \notin KeysOf(last.pre.builder_vars)
    /\ last.result = "NotUniqueRandomVariableName"

\* C4: in an active context the key sets of builder_vars and builder_params
\* are disjoint, every name maps to the first object registered under it, and
\* register_parameter raises NotUniqueParameterName for a name present in
\* either mapping.
C4_NamesUnique ==
    active =>
        /\ KeysOf(builder_vars) \cap KeysOf(builder_params) = {}
        /\ \A n \in KeysOf(builder_vars) :
               DictHas(firstReg, n) /\ builder_vars[1][n] = firstReg[n]
        /\ \A n \in KeysOf(builder_params) :
               DictHas(firstReg, n) /\ builder_params[1][n] = firstReg[n]
        /\ (last.op = "register_parameter"
              /\ (last.name \in KeysOf(last.pre.builder_vars)
                  \/ last.name \in KeysOf(last.pre.builder_params)))
             => last.result = "NotUniqueParameterName"

C4_Witness ==
    /\ active
    /\ KeysOf(builder_vars) # {}
    /\ KeysOf(builder_params) # {}
    /\ last.op = "register_parameter"
    /\ last.result = "NotUniqueParameterName"
    /\ last.name \in KeysOf(builder_vars)
    /\ last.obj[1].id # builder_vars[1][last.name].id

\* C5: a context starts with empty registries, so register_variable of a
\* name registered in an earlier, exited context succeeds in a later one
\* (unless the later context has itself registered the name already).
C5_ReuseAcrossContexts ==
    /\ (last.op = "builder" /\ last.result = "ok")
          => (builder_vars = Some(EmptyDict) /\ builder_params = Some(EmptyDict))
    /\ (/\ last.op = "register_variable"
        /\ last.pre.active
        /\ last.name \in past
        /\ last.name \notin KeysOf(last.pre.builder_vars)
        /\ last.name \notin KeysOf(last.pre.builder_params))
          => (last.result = "ok" /\ builder_vars[1][last.name] = last.obj[1])

C5_Witness ==
    /\ last.op = "register_variable"
    /\ last.pre.active
    /\ last.name \in past
    /\ last.result = "ok"
    /\ builder_vars[1][last.name] = last.obj[1]

\* C6: every successful register_variable leaves the graph recomputed as
\* the engine graph restricted to the keys of builder_vars before the call,
\* the new name and the keys of builder_params, so that the stored graph's
\* nodes cover every registered name.
C6_GraphFollowsRegistration ==
    (last.op = "register_variable" /\ last.result = "ok")
        => /\ graph = Some(get_graph_of(
                  (KeysOf(last.pre.builder_vars) \cup {last.name})
                      \cup KeysOf(last.pre.builder_params)))
           /\ (KeysOf(builder_vars) \cup KeysOf(builder_params))
                  \subseteq graph[1].nodes

\* What update_graph itself does in an active context: the graph becomes the
\* engine graph restricted to the registered names and rv_name.
UpdateGraphRestricts ==
    (last.op = "update_graph" /\ last.pre.active)
        => /\ last.result = "ok"
           /\ graph = Some(get_graph_of(
                  (KeysOf(last.pre.builder_vars) \cup {last.name})
                      \cup KeysOf(last.pre.builder_params)))
           /\ (KeysOf(builder_vars) \cup KeysOf(builder_params))
                  \subseteq graph[1].nodes

\* C7: a random variable constructed while a context is active is registered
\* in that context under its name; one constructed while no context is active
\* changes no context state.
C7_ConstructedIsRegistered ==
    (last.op = "RandomVariable")
        => IF last.pre.active
           THEN /\ last.name \in KeysOf(builder_vars)
                /\ builder_vars[1][last.name] = last.obj[1]
           ELSE Properties = last.pre

\* The older RandomVariable constructed directly on an Edward object is
\* appended once to the active model's distlist, and nowhere without one.
ClassicDirectIsCollected ==
    (lastC.op = "RandomVariable")
        => /\ lastC.result = "ok"
           /\ distlist = IF lastC.pre.pm_active
                         THEN Append(lastC.pre.distlist, lastC.var[1])
                         ELSE lastC.pre.distlist

\* C8: a Normal built with consistent parameters is a variable whose leading
\* dimension is the product of the sizes of the replicate scopes open at its
\* construction (1 when none is open).
C8_BatchIsProductOfScopes ==
    (lastC.op = "Normal" /\ check_params(lastC.loc[1], lastC.scale[1], lastC.dim) = "ok")
        => /\ lastC.result = "ok"
           /\ ~IsNone(lastC.var)
           /\ lastC.var[1].shape[1] = Product(lastC.pre.repl)

\* C9: Normal raises ValueError when loc and scale both have more than one
\* element and differ in length, or when dim is given and differs from the
\* length of a multi-element loc or scale; Normal with a loc of length 3, a
\* scalar scale and dim 3 is constructed.
C9_NormalValidatesShapes ==
    (lastC.op = "Normal")
        => LET loc == lastC.loc[1]
               scale == lastC.scale[1]
               dim == lastC.dim
           IN  /\ (loc.size > 1 /\ scale.size > 1 /\ loc.size # scale.size)
                     => lastC.result \in {"ValueError: multidimensional",
                                          "ValueError: loc and scale lengths"}
               /\ (~IsNone(dim) /\ loc.size > 1 /\ dim[1] # loc.size)
                     => lastC.result \in {"ValueError: multidimensional",
                                          "ValueError: loc and scale lengths",
                                          "ValueError: loc length and dim"}
               /\ (~IsNone(dim) /\ scale.size > 1 /\ dim[1] # scale.size)
                     => lastC.result \in {"ValueError: multidimensional",
                                          "ValueError: loc and scale lengths",
                                          "ValueError: loc length and dim",
                                          "ValueError: scale length and dim"}
               /\ (loc = Vector(3) /\ scale = Scalar /\ dim = Some(3))
                     => lastC.result = "ok"

\* The validation half of C9 alone: the ValueError cases, and no ValueError
\* for one-dimensional parameters of consistent lengths.
NormalRejectsInconsistentShapes ==
    (lastC.op = "Normal")
        => LET loc == lastC.loc[1]
               scale == lastC.scale[1]
               dim == lastC.dim
               bad == \/ loc.ndim > 1 \/ scale.ndim > 1
                      \/ (loc.size > 1 /\ scale.size > 1 /\ loc.size # scale.size)
                      \/ (~IsNone(dim) /\ loc.size > 1 /\ dim[1] # loc.size)
                      \/ (~IsNone(dim) /\ scale.size > 1 /\ dim[1] # scale.size)
           IN  bad <=> (lastC.result \in {"ValueError: multidimensional",
                                          "ValueError: loc and scale lengths",
                                          "ValueError: loc length and dim",
                                          "ValueError: scale length and dim"})

\* C10: a binary operator applied with a wrapper among its operands gives
\* what the engine's same operator gives on the unwrapped operands, in either
\* operand position, and the result is a native tensor, never a wrapper.
C10_OperatorsMatchEngine ==
    /\ (lastOp.form = "expr")
          => /\ lastOp.result[1] =
                    NativeExpr(lastOp.op, Unwrap(lastOp.left[1]), Unwrap(lastOp.right[1]))
             /\ lastOp.result[1].kind = "Tensor"
             /\ ~IsWrapper(lastOp.result[1].x) /\ ~IsWrapper(lastOp.result[1].y)
    /\ (lastOp.form = "method")
          => /\ lastOp.result[1] =
                    NativeMethod(lastOp.left[1].var, lastOp.op, Unwrap(lastOp.right[1]))
             /\ lastOp.result[1].kind = "Tensor"

\* What the code does establish: the methods of the wrapper unwrap their
\* operand, so that whenever Python gives the expression to the wrapper first
\* (wrapper on the left, or a Python number on the left, or an arithmetic
\* operator) the result is the engine's on the unwrapped operands.  A
\* comparison with an engine object on the left goes to the engine with the
\* wrapper as it is: it raises, or, if the engine declines, the wrapper's
\* mirrored comparison answers with the operands exchanged.
EngineComparesFirst ==
    /\ lastOp.form = "expr"
    /\ lastOp.op \in ComparisonOperators
    /\ IsEngineObject(lastOp.left[1])
    /\ IsWrapper(lastOp.right[1])
OperatorsUnwrapOperands ==
    /\ (lastOp.form = "expr" /\ ~EngineComparesFirst)
          => /\ lastOp.result[1] =
                    NativeExpr(lastOp.op, Unwrap(lastOp.left[1]), Unwrap(lastOp.right[1]))
             /\ lastOp.result[1].kind = "Tensor"
             /\ ~IsWrapper(lastOp.result[1].x) /\ ~IsWrapper(lastOp.result[1].y)
    /\ EngineComparesFirst
          => \/ lastOp.result[1].kind = "TypeError"
             \/ lastOp.result[1] =
                    NativeMethod(lastOp.right[1].var,
                                 PythonOperators[lastOp.op].reflected, lastOp.left[1])
    /\ (lastOp.form = "method")
          => /\ lastOp.result[1] =
                    NativeMethod(lastOp.left[1].var, lastOp.op, Unwrap(lastOp.right[1]))
             /\ lastOp.result[1].kind = "Tensor"

C10_Witness ==
    /\ lastOp.form = "expr"
    /\ lastOp.op = "**"
    /\ ~IsWrapper(lastOp.left[1])
    /\ IsWrapper(lastOp.right[1])
    /\ lastOp.result[1] =
           [kind |-> "Tensor", fn |-> "pow", x |-> lastOp.left[1],
            y |-> lastOp.right[1].var]

C10_WitnessBothWrapped ==
    /\ lastOp.form = "expr"
    /\ lastOp.op = "<"
    /\ IsWrapper(lastOp.left[1])
    /\ IsWrapper(lastOp.right[1])
    /\ lastOp.result[1].kind = "Tensor"

\* 1.0 < w: the number declines and w.__gt__(1.0) answers, as v.__gt__(1.0)
\* answers 1.0 < v in the engine.
C10_WitnessNumberCompared ==
    /\ lastOp.form = "expr"
    /\ lastOp.op = "<"
    /\ lastOp.left[1].kind = "float"
    /\ IsWrapper(lastOp.right[1])
    /\ lastOp.result[1] =
           [kind |-> "Tensor", fn |-> "greater", x |-> lastOp.right[1].var,
            y |-> lastOp.left[1]]

\* tf.constant(...) < w, raising in the engine.
C10_WitnessEngineRaises ==
    /\ EngineComparesFirst
    /\ lastOp.left[1].kind = "Tensor"
    /\ lastOp.result[1].kind = "TypeError"

\* C14: a register_variable or register_parameter call that raises a
\* duplicate-name error leaves active, graph, builder_vars, builder_params
\* and pvars as they were, and get_builder_variable(name) still gives the
\* object first registered under the name.
C14_FailedRegistrationChangesNothing ==
    (/\ last.op \in {"register_variable", "register_parameter"}
     /\ last.result \in {"NotUniqueRandomVariableName", "NotUniqueParameterName"})
        => /\ Properties = last.pre
           /\ DictHas(firstReg, last.name)
           /\ DictGet(builder_vars[1], last.name,
                      DictGet(builder_params[1], last.name, None))
                  = Some(firstReg[last.name])

C14_Witness ==
    /\ last.op = "register_variable"
    /\ last.result = "NotUniqueRandomVariableName"
    /\ last.name \in KeysOf(builder_vars)
    /\ builder_vars[1][last.name] # last.obj[1]
    /\ KeysOf(builder_params) # {}

\* C15: while no builder context is active builder_vars and builder_params
\* hold no entries, and register_variable, register_parameter and
\* get_builder_variable called then raise and change nothing.
C15_NothingOutsideAContext ==
    /\ ~active => (KeysOf(builder_vars) = {} /\ KeysOf(builder_params) = {}
                   /\ IsNone(builder_vars) /\ IsNone(builder_params))
    /\ (/\ last.op \in {"register_variable", "register_parameter",
                        "get_builder_variable"}
        /\ ~last.pre.active)
          => (last.result \in Exceptions /\ Properties = last.pre)

C15_Witness ==
    /\ last.op = "register_variable"
    /\ ~last.pre.active
    /\ last.result = "TypeError"
    /\ past # {}
    /\ IsNone(builder_vars)

\* C11: w.<name> is the wrapper's own attribute when the wrapper defines the
\* name; otherwise the wrapped object's attribute when that object has it;
\* otherwise its distribution's attribute when the distribution has it;
\* otherwise NotImplementedError, whose message holds the name and the class
\* name of the wrapped object.  The wrapped object comes before its
\* distribution when both have the name.
C11_AttributeLookupOrder ==
    lastOp.form = "getattr" =>
        LET self == lastOp.left[1]
            name == lastOp.op
            r == lastOp.result[1]
            own == name \in WrapperAttributes
            inVar == name \in self.var.attrs
            inDist == name \in self.var.distribution.attrs
        IN  /\ own => r = Return(getattr("wrapper", self, name))
            /\ (~own /\ inVar) =>
                  /\ r.outcome = "return"
                  /\ r.value.arg = getattr("var", self.var, name)
            /\ (~own /\ ~inVar /\ inDist) =>
                  /\ r.outcome = "return"
                  /\ r.value.arg = getattr("distribution", self.var.distribution, name)
            /\ (~own /\ ~inVar /\ ~inDist) =>
                  /\ r.outcome = "NotImplementedError"
                  /\ r.message[2] = name
                  /\ r.message[4] = self.var.classname

C11_Witness ==
    /\ lastOp.form = "getattr"
    /\ lastOp.op = "dtype"
    /\ "dtype" \in lastOp.left[1].var.attrs
    /\ "dtype" \in lastOp.left[1].var.distribution.attrs
    /\ lastOp.result[1].value.arg.from = "var"

C11_WitnessOwn ==
    /\ lastOp.form = "getattr"
    /\ lastOp.op = "__add__"
    /\ "__add__" \in lastOp.left[1].var.attrs
    /\ lastOp.result[1].value.from = "wrapper"

C11_WitnessDistribution ==
    /\ lastOp.form = "getattr"
    /\ lastOp.op = "loc"
    /\ lastOp.result[1].outcome = "return"
    /\ lastOp.result[1].value.arg.from = "distribution"

C11_WitnessFails ==
    /\ lastOp.form = "getattr"
    /\ lastOp.result[1].outcome = "NotImplementedError"
    /\ lastOp.result[1].message[2] = "mean"
    /\ lastOp.result[1].message[4] = "Tensor"

\* ------------------------------------------ the distribution functions' claims
\* The arguments of the call and what the factory received for them, as pairs.
ArgumentPairs ==
    {<<make.args[i], make.received_args[i]>> : i \in DOMAIN make.args} \cup
    {<<make.kwargs[k], make.received_kwargs[k]>> : k \in DOMAIN make.kwargs}

\* C12: of a call's positional and keyword arguments the factory receives the
\* wrapped object in place of every wrapper, at top level and inside nested
\* sequences of any depth (a nested list arriving as one stacked tensor), and
\* every other argument unchanged; no wrapper reaches the factory, and the
\* wrapper made holds a native random variable.
C12_NoWrapperReachesFactory ==
    make.phase = "done" =>
        /\ \A p \in ArgumentPairs :
              /\ IsWrapper(p[1]) => p[2] = p[1].var
              /\ IsList(p[1]) => (p[2].kind = "Tensor" /\ p[2].fn = "stack")
              /\ p[1].kind = "float" => p[2] = p[1]
              /\ ~ContainsWrapper(p[2])
        /\ make.raised = "ok"
        /\ make.rv[1].var.kind = "ed.RandomVariable"

\* What the code does establish: wrappers at top level and inside lists of
\* any depth are replaced, every list arrives stacked, everything else (a
\* tuple included, with the wrappers in it) arrives as it was given; a call
\* with no wrapper inside a tuple makes a wrapper around a native variable.
RECURSIVE WrapperInTuple(_)
WrapperInTuple(o) ==
    IF o.kind = "tuple" THEN ContainsWrapper(o)
    ELSE IF IsList(o) THEN \E i \in DOMAIN o.items : WrapperInTuple(o.items[i])
    ELSE FALSE
RECURSIVE Unwrapped(_)
Unwrapped(o) ==
    IF IsWrapper(o) THEN o.var
    ELSE IF IsList(o) THEN tf_stack([i \in DOMAIN o.items |-> Unwrapped(o.items[i])])
    ELSE o
SanitizeUnwrapsThroughLists ==
    make.phase = "done" =>
        /\ \A p \in ArgumentPairs :
              /\ p[2] = Unwrapped(p[1])
              /\ ContainsWrapper(p[2]) <=> WrapperInTuple(p[1])
        /\ (\A p \in ArgumentPairs : ~WrapperInTuple(p[1]))
              => /\ make.raised = "ok"
                 /\ make.rv[1].var.kind = "ed.RandomVariable"
                 /\ ~AnyContainsWrapper(make.rv[1].var.args)
                 /\ ~AnyContainsWrapper(make.rv[1].var.kwargs)

SanitizeWitnessNestedList ==
    /\ make.phase = "done"
    /\ \E p \in ArgumentPairs :
          /\ IsList(p[1])
          /\ \E i \in DOMAIN p[1].items :
                /\ IsList(p[1].items[i])
                /\ \E j \in DOMAIN p[1].items[i].items : IsWrapper(p[1].items[i].items[j])
          /\ ~ContainsWrapper(p[2])

\* ------------------------------------------------------------ ELBO's claims
\* weight: batch_weight for a variable of the data plate, 1 otherwise.
Weight(v) == IF v.is_datamodel THEN loss.batch_weight ELSE 1
RECURSIVE WeightedSum(_, _)
WeightedSum(vs, names) ==
    IF names = {} THEN 0
    ELSE LET n == CHOOSE n \in names : TRUE
         IN  Weight(vs[n]) * log_prob_sum(vs[n]) + WeightedSum(vs, names \ {n})

\* C13: ELBO returns -(energy + entropy): energy is the sum over all of the
\* generative model's variables of weight times the summed log-probability at
\* the variable's value, entropy the negative of that sum over the
\* approximating model's variables outside the data plate; the approximating
\* model is expanded first, the generative model second with the approximating
\* model's variables set.
C13_NegativeELBO ==
    loss.phase = "done" =>
        LET claimed_energy == WeightedSum(loss.pvars, DOMAIN loss.pvars)
            claimed_entropy ==
                0 - WeightedSum(loss.qvars,
                                {n \in DOMAIN loss.qvars : ~loss.qvars[n].is_datamodel})
        IN  /\ loss.value = 0 - (claimed_energy + claimed_entropy)
            /\ DOMAIN loss.pvars = DOMAIN loss.pmodel
            /\ DOMAIN loss.qvars = DOMAIN loss.qmodel
            /\ loss.trace[1].expanded = "qmodel"
            /\ loss.trace[2].expanded = "pmodel"
            /\ loss.trace[2].set_values = loss.qvars
            /\ \A n \in DOMAIN loss.pvars \cap DOMAIN loss.qvars :
                  loss.pvars[n].value = loss.qvars[n].value

C13_Witness ==
    /\ loss.phase = "done"
    /\ loss.batch_weight > 1
    /\ DictHas(loss.qvars, "z")
    /\ loss.qvars["z"].is_datamodel
    /\ log_prob_sum(loss.qvars["z"]) # 0
    /\ loss.pvars["x"].is_datamodel
    /\ log_prob_sum(loss.pvars["x"]) # 0
    /\ loss.pvars["z"].value # loss.pmodel["z"].sample
    /\ loss.value > 0

C13_WitnessEntropy ==
    /\ loss.phase = "done"
    /\ DictHas(loss.qvars, "z")
    /\ ~loss.qvars["z"].is_datamodel
    /\ log_prob_sum(loss.qvars["z"]) # 0
    /\ loss.value < 0

=============================================================================
